---- MODULE Spec2Model ----
(***************************************************************************)
(* A model of jilio/sqlitefs: files stored in SQLite as fixed-size         *)
(* fragments (file_fragments) under a flat path table (file_metadata),     *)
(* written through SQLiteWriter sessions that funnel every mutation        *)
(* through the single writerLoop goroutine, and read through SQLiteFile    *)
(* handles (Read / Seek / ReadDir / Stat).                                 *)
(*                                                                         *)
(* Sources: src/sqlitefs.go (SQLiteFS), src/unnamed/part_012               *)
(* (SQLiteWriter, the channel-based writer that sqlitefs.go's NewWriter    *)
(* constructs), src/file.go lines 1-601 (SQLiteFile).                      *)
(*                                                                         *)
(* Paths are sequences of one-character strings, so that prefix tests,     *)
(* SplitN, TrimPrefix and SQL LIKE are computed as the code computes them. *)
(* Blobs are sequences of byte values.                                     *)
(***************************************************************************)
EXTENDS Integers, Sequences, FiniteSets, TLC

VARIABLES
    file_metadata,   \* table file_metadata: set of rows [id, path, type]
    file_fragments,  \* table file_fragments: set of rows [file_id, fragment_index, fragment]
    nextId,          \* AUTOINCREMENT sequence of file_metadata.id
    writers,         \* the SQLiteWriter objects and the position of each one's caller
    written,         \* history: the bytes handed to each session's Write calls so far
    inflight,        \* requests the writerLoop goroutine has received and not yet answered
    file,            \* the SQLiteFile handle of the reading caller, and its position in Read
    rd,              \* what the last call of the reading caller returned
    hist,            \* history: the bytes the handle has returned since its last Open or Seek
    fs               \* the SQLiteFS object: its channel, its wait group, its database handle

vars == <<file_metadata, file_fragments, nextId, writers, written, inflight, file, rd, hist, fs>>

store == <<file_metadata, file_fragments, nextId>>

reader == <<file, rd, hist>>

----------------------------------------------------------------------------
(* Bounds of the model *)

\* The code's fragmentSize is 16 * 1024 (src/unnamed/part_012:9); the model is
\* parametric in it and is checked with a small fragment.
fragmentSize == 2

\* Most bytes one session is handed in total.
MaxLen == 5

\* Longest argument of one Write call.
MaxWrite == 3

\* Largest offset a Seek is followed to.
MaxOffset == 8

Writers == {1, 2}

Min2(a, b) == IF a <= b THEN a ELSE b

Nil == "nil"
ErrClosed == "sqlitefs: write to closed writer"
ErrNoRows == "sql: no rows in result set"
EOF == "EOF"
ErrNotADir == "not a directory"
ErrDirNotFound == "directory not found"
ErrNotExist == "file does not exist"
ErrWhence == "sqlitefs: invalid whence"
ErrNegative == "sqlitefs: negative position"

----------------------------------------------------------------------------
(* The two tables *)

\* SELECT id FROM file_metadata WHERE path = ?  (path is UNIQUE: at most one row)
IdsOfPath(meta, path) == {r.id : r \in {x \in meta : x.path = path}}

\* mime.TypeByExtension(filepath.Ext(path)) with the default of createFileRecord.
\* No path of the model carries an extension, so the default is what is stored.
MimeTypeOf(path) == "application/octet-stream"

\* Mutant: a path that has a row keeps it, with its id (an update in place).
FS_createFileRecord_keepid(meta, id, path, mimeType) ==
    IF \E r \in meta : r.path = path
    THEN {[r EXCEPT !.type = IF r.path = path THEN mimeType ELSE @] : r \in meta}
    ELSE meta \cup {[id |-> id, path |-> path, type |-> mimeType]}

\* SQLiteFS.createFileRecord: INSERT OR REPLACE INTO file_metadata (path, type).
\* The UNIQUE(path) conflict deletes the old row; the new row takes a fresh
\* AUTOINCREMENT id, so the fragments of the old id are left behind.
FS_createFileRecord(meta, id, path, mimeType) ==
    {r \in meta : r.path # path} \cup {[id |-> id, path |-> path, type |-> mimeType]}

\* The INSERT OR REPLACE INTO file_fragments of SQLiteFS.writeFragment:
\* an upsert on the primary key (file_id, fragment_index).
UpsertFragment(frags, fileID, index, data) ==
    {r \in frags : ~(r.file_id = fileID /\ r.fragment_index = index)}
        \cup {[file_id |-> fileID, fragment_index |-> index, fragment |-> data]}

\* SQLiteFS.writeFragment: look the file id up by path inside the transaction,
\* fail with ErrNoRows when there is no row, else upsert and commit.
FS_writeFragment_err(meta, path) ==
    IF IdsOfPath(meta, path) = {} THEN ErrNoRows ELSE Nil

FS_writeFragment(meta, frags, path, data, index) ==
    IF IdsOfPath(meta, path) = {} THEN frags
    ELSE UpsertFragment(frags, CHOOSE i \in IdsOfPath(meta, path) : TRUE, index, data)

----------------------------------------------------------------------------
(* SQLiteFS *)

ErrDBClosed == "sql: database is closed"

\* NewSQLiteFS: the channel is made, the tables exist, the writerLoop goroutine
\* is counted in writerWg and started; closing says where a caller of
\* SQLiteFS.Close is.
NewSQLiteFS ==
    [writeCh |-> "open", writerWg |-> 1, db |-> "open", closing |-> "none", blocked |-> {}]

----------------------------------------------------------------------------
(* SQLiteWriter *)

\* No request: the value of a session's failed field while none of its
\* fragment requests has failed.
NoRequest ==
    [from |-> 0, path |-> <<>>, data |-> <<>>, index |-> -1, mimeType |-> "",
     phase |-> "none", err |-> Nil]

\* failed is history: the last fragment request of the session that the loop
\* answered with an error.
NoSession ==
    [pc |-> "none", path |-> <<>>, buffer |-> <<>>, fragmentIndex |-> 0,
     fileCreated |-> FALSE, closed |-> FALSE, call |-> "none", plen |-> 0,
     ret |-> [op |-> "none", n |-> 0, err |-> Nil], closedOk |-> FALSE,
     failed |-> NoRequest]

\* NewSQLiteWriter / SQLiteFS.NewWriter
NewWriter(w, path) ==
    /\ writers[w].pc = "none"
    /\ writers' = [writers EXCEPT ![w] = [NoSession EXCEPT !.pc = "idle", !.path = path]]
    /\ written' = [written EXCEPT ![w] = <<>>]
    /\ UNCHANGED <<store, inflight, reader, fs>>

\* Where writeFragment blocks first: on the createFileRecord request when the
\* file record was not created yet, else on the fragment request.
FirstSend(s) == IF s.fileCreated THEN "sendFrag" ELSE "sendCreate"

\* Mutant: Write does not look at w.closed.
Writer_Write_unguarded(w, data) ==
    /\ writers[w].pc = "idle"
    /\ LET s == writers[w]
           buf == s.buffer \o data
       IN  /\ written' = [written EXCEPT ![w] = @ \o data]
           /\ writers' = [writers EXCEPT ![w] =
                   IF Len(buf) >= fragmentSize
                   THEN [s EXCEPT !.buffer = buf, !.plen = Len(data),
                                  !.call = "Write", !.pc = FirstSend(s)]
                   ELSE [s EXCEPT !.buffer = buf,
                                  !.ret = [op |-> "Write", n |-> Len(data), err |-> Nil]]]
    /\ UNCHANGED <<store, inflight, reader, fs>>

\* SQLiteWriter.Write, up to its return or to the first channel send.
Writer_Write(w, data) ==
    /\ writers[w].pc = "idle"
    /\ LET s == writers[w]
           buf == s.buffer \o data
       IN  IF s.closed
           THEN /\ writers' = [writers EXCEPT
                        ![w].ret = [op |-> "Write", n |-> 0, err |-> ErrClosed]]
                /\ UNCHANGED written
           ELSE /\ written' = [written EXCEPT ![w] = @ \o data]
                /\ writers' = [writers EXCEPT ![w] =
                        IF Len(buf) >= fragmentSize
                        THEN [s EXCEPT !.buffer = buf, !.plen = Len(data),
                                       !.call = "Write", !.pc = FirstSend(s)]
                        ELSE [s EXCEPT !.buffer = buf,
                                       !.ret = [op |-> "Write", n |-> Len(data), err |-> Nil]]]
    /\ UNCHANGED <<store, inflight, reader, fs>>

\* Mutant: Close flushes whatever the buffer holds, an empty buffer too, without
\* looking at w.closed.
Writer_Close_reflush(w) ==
    /\ writers[w].pc = "idle"
    /\ writers' = [writers EXCEPT ![w] =
           [writers[w] EXCEPT !.call = "Close", !.pc = FirstSend(writers[w])]]
    /\ UNCHANGED <<store, written, inflight, reader, fs>>

\* SQLiteWriter.Close, up to its return or to the first channel send.
Writer_Close(w) ==
    /\ writers[w].pc = "idle"
    /\ LET s == writers[w]
       IN  writers' = [writers EXCEPT ![w] =
               IF s.closed
               THEN [s EXCEPT !.ret = [op |-> "Close", n |-> 0, err |-> Nil]]
               ELSE IF Len(s.buffer) > 0 \/ ~s.fileCreated
               THEN [s EXCEPT !.call = "Close", !.pc = FirstSend(s)]
               ELSE [s EXCEPT !.closed = TRUE, !.closedOk = TRUE,
                              !.ret = [op |-> "Close", n |-> 0, err |-> Nil]]]
    /\ UNCHANGED <<store, written, inflight, reader, fs>>

\* Mutant: the fragment is cut without the cap of fragmentSize.
writeSize_uncapped(s) == Len(s.buffer)

\* min(len(w.buffer), w.fragmentSize) of SQLiteWriter.writeFragment
writeSize(s) == Min2(Len(s.buffer), fragmentSize)

\* The request writeFragment (index, data) or createFileRecord (mimeType) puts on
\* fs.writeCh; writerLoop tells the two apart by mimeType # "".
Request(w) ==
    LET s == writers[w]
    IN  IF s.pc = "sendCreate"
        THEN [from |-> w, path |-> s.path, data |-> <<>>, index |-> 0,
              mimeType |-> MimeTypeOf(s.path), phase |-> "exec", err |-> Nil]
        ELSE [from |-> w, path |-> s.path, data |-> SubSeq(s.buffer, 1, writeSize(s)),
              index |-> s.fragmentIndex, mimeType |-> "", phase |-> "exec", err |-> Nil]

\* Mutant: a failed commit is passed over: its bytes leave the buffer and the
\* fragment index moves on.
ReturnErr_advance(s, err) ==
    LET t == IF s.pc = "waitFrag"
             THEN [s EXCEPT !.buffer = SubSeq(s.buffer, writeSize(s) + 1, Len(s.buffer)),
                            !.fragmentIndex = s.fragmentIndex + 1]
             ELSE s
    IN  IF s.call = "Write"
        THEN [t EXCEPT !.pc = "idle", !.call = "none",
                       !.ret = [op |-> "Write", n |-> s.plen - Len(s.buffer), err |-> err]]
        ELSE [t EXCEPT !.pc = "idle", !.call = "none",
                       !.ret = [op |-> "Close", n |-> 0, err |-> err]]

\* The caller's return from Write or Close with an error of writeFragment.
ReturnErr(s, err) ==
    IF s.call = "Write"
    THEN [s EXCEPT !.pc = "idle", !.call = "none",
                   !.ret = [op |-> "Write", n |-> s.plen - Len(s.buffer), err |-> err]]
    ELSE [s EXCEPT !.pc = "idle", !.call = "none",
                   !.ret = [op |-> "Close", n |-> 0, err |-> err]]

\* The loop heads of Write (len(buffer) >= fragmentSize) and of Close
\* (len(buffer) > 0 || !fileCreated) after a writeFragment that succeeded.
LoopOrReturn(s) ==
    IF s.call = "Write"
    THEN IF Len(s.buffer) >= fragmentSize
         THEN [s EXCEPT !.pc = FirstSend(s)]
         ELSE [s EXCEPT !.pc = "idle", !.call = "none",
                        !.ret = [op |-> "Write", n |-> s.plen, err |-> Nil]]
    ELSE IF Len(s.buffer) > 0 \/ ~s.fileCreated
         THEN [s EXCEPT !.pc = FirstSend(s)]
         ELSE [s EXCEPT !.pc = "idle", !.call = "none", !.closed = TRUE, !.closedOk = TRUE,
                        !.ret = [op |-> "Close", n |-> 0, err |-> Nil]]

\* Mutant: w.fileCreated is not set after createFileRecord, so every
\* writeFragment creates the file record again.
Writer_writeFragment_recreate(s, err) ==
    IF s.pc = "waitCreate"
    THEN IF err # Nil THEN ReturnErr(s, err)
         ELSE [s EXCEPT !.pc = "sendFrag"]
    ELSE IF err # Nil THEN ReturnErr(s, err)
         ELSE LoopOrReturn([s EXCEPT
                 !.buffer = SubSeq(s.buffer, writeSize(s) + 1, Len(s.buffer)),
                 !.fragmentIndex = s.fragmentIndex + 1])

\* Mutant: w.fragmentIndex stays where it is after a commit.
Writer_writeFragment_sameindex(s, err) ==
    IF s.pc = "waitCreate"
    THEN IF err # Nil THEN ReturnErr(s, err)
         ELSE [s EXCEPT !.fileCreated = TRUE, !.pc = "sendFrag"]
    ELSE IF err # Nil THEN ReturnErr(s, err)
         ELSE LoopOrReturn([s EXCEPT
                 !.buffer = SubSeq(s.buffer, writeSize(s) + 1, Len(s.buffer))])

\* SQLiteWriter.writeFragment from the receive on respCh onwards.
Writer_writeFragment(s, err) ==
    IF s.pc = "waitCreate"
    THEN IF err # Nil THEN ReturnErr(s, err)
         ELSE [s EXCEPT !.fileCreated = TRUE, !.pc = "sendFrag"]
    ELSE IF err # Nil THEN ReturnErr(s, err)
         ELSE LoopOrReturn([s EXCEPT
                 !.buffer = SubSeq(s.buffer, writeSize(s) + 1, Len(s.buffer)),
                 !.fragmentIndex = s.fragmentIndex + 1])

----------------------------------------------------------------------------
(* SQLiteFS.writerLoop: the single goroutine that owns every mutation *)

\* Mutant: a request is taken while the previous one is still being handled
\* (a goroutine per request instead of the one loop).
writerLoop_recv_unserialized(w) ==
    /\ writers[w].pc \in {"sendCreate", "sendFrag"}
    /\ fs.writeCh = "open"
    /\ inflight' = inflight \cup {Request(w)}
    /\ writers' = [writers EXCEPT ![w].pc =
                      IF writers[w].pc = "sendCreate" THEN "waitCreate" ELSE "waitFrag"]
    /\ UNCHANGED <<store, written, reader, fs>>

\* Mutant: the loop takes the next request once the work on the previous one
\* is done, before it has sent the reply.
writerLoop_recv_early(w) ==
    /\ writers[w].pc \in {"sendCreate", "sendFrag"}
    /\ fs.writeCh = "open"
    /\ \A r \in inflight : r.phase = "done"
    /\ inflight' = inflight \cup {Request(w)}
    /\ writers' = [writers EXCEPT ![w].pc =
                      IF writers[w].pc = "sendCreate" THEN "waitCreate" ELSE "waitFrag"]
    /\ UNCHANGED <<store, written, reader, fs>>

\* for req := range fs.writeCh: the unbuffered send of a writer meets the
\* receive of the loop, which is back at its head only after it has answered
\* the previous request.
writerLoop_recv(w) ==
    /\ writers[w].pc \in {"sendCreate", "sendFrag"}
    /\ fs.writeCh = "open"
    /\ inflight = {}
    /\ inflight' = inflight \cup {Request(w)}
    /\ writers' = [writers EXCEPT ![w].pc =
                      IF writers[w].pc = "sendCreate" THEN "waitCreate" ELSE "waitFrag"]
    /\ UNCHANGED <<store, written, reader, fs>>

\* The body of the loop: createFileRecord or writeFragment against the database;
\* on a closed database Exec and Begin fail and nothing is stored.
writerLoop_exec(r) ==
    /\ r \in inflight
    /\ r.phase = "exec"
    /\ IF fs.db = "closed"
       THEN /\ UNCHANGED <<file_metadata, file_fragments, nextId>>
            /\ inflight' = (inflight \ {r}) \cup {[r EXCEPT !.phase = "done", !.err = ErrDBClosed]}
       ELSE IF r.mimeType # ""
       THEN /\ file_metadata' = FS_createFileRecord(file_metadata, nextId, r.path, r.mimeType)
            /\ nextId' = nextId + 1
            /\ UNCHANGED file_fragments
            /\ inflight' = (inflight \ {r}) \cup {[r EXCEPT !.phase = "done", !.err = Nil]}
       ELSE /\ file_fragments' =
                    FS_writeFragment(file_metadata, file_fragments, r.path, r.data, r.index)
            /\ UNCHANGED <<file_metadata, nextId>>
            /\ inflight' = (inflight \ {r}) \cup
                    {[r EXCEPT !.phase = "done",
                               !.err = FS_writeFragment_err(file_metadata, r.path)]}
    /\ UNCHANGED <<writers, written, reader, fs>>

\* Mutant: the loop answers fragment requests only; the reply to a
\* createFileRecord request is never sent.
writerLoop_reply_fragonly(r) ==
    /\ r \in inflight
    /\ r.phase = "done"
    /\ inflight' = inflight \ {r}
    /\ writers' = IF r.mimeType # "" THEN writers
                  ELSE [writers EXCEPT ![r.from] =
                          [Writer_writeFragment(writers[r.from], r.err) EXCEPT
                              !.failed = IF r.err # Nil THEN r ELSE @]]
    /\ UNCHANGED <<store, written, reader, fs>>

\* req.respCh <- err, met by the writer's err := <-respCh; the writer runs on
\* to its return or to its next send.
writerLoop_reply(r) ==
    /\ r \in inflight
    /\ r.phase = "done"
    /\ inflight' = inflight \ {r}
    /\ writers' = [writers EXCEPT ![r.from] =
                      [Writer_writeFragment(writers[r.from], r.err) EXCEPT
                          !.failed = IF r.err # Nil /\ r.mimeType = "" THEN r ELSE @]]
    /\ UNCHANGED <<store, written, reader, fs>>

\* SQLiteFS.Close, its first statement: close(fs.writeCh). blocked keeps, as
\* history, the sessions whose send was waiting on the channel at that moment.
FS_Close_begin ==
    /\ fs.closing = "none"
    /\ fs' = [fs EXCEPT !.writeCh = "closed", !.closing = "waiting",
                        !.blocked = {w \in Writers :
                                        writers[w].pc \in {"sendCreate", "sendFrag"}}]
    /\ UNCHANGED <<store, writers, written, inflight, reader>>

\* for req := range fs.writeCh ends on the closed channel, once the loop is
\* back at its head; the deferred writerWg.Done() runs.
writerLoop_exit ==
    /\ fs.writeCh = "closed"
    /\ fs.writerWg = 1
    /\ inflight = {}
    /\ fs' = [fs EXCEPT !.writerWg = 0]
    /\ UNCHANGED <<store, writers, written, inflight, reader>>

\* SQLiteFS.Close from fs.writerWg.Wait() on: it returns fs.db.Close().
FS_Close_return ==
    /\ fs.closing = "waiting"
    /\ fs.writerWg = 0
    /\ fs' = [fs EXCEPT !.db = "closed", !.closing = "done"]
    /\ UNCHANGED <<store, writers, written, inflight, reader>>

\* w.fs.writeCh <- writeRequest{...} on the closed channel: the send panics
\* (send on closed channel), whether it began before or after the close.
Writer_panic(w) ==
    /\ writers[w].pc \in {"sendCreate", "sendFrag"}
    /\ fs.writeCh = "closed"
    /\ writers' = [writers EXCEPT ![w].pc = "panicked"]
    /\ UNCHANGED <<store, written, inflight, reader, fs>>

\* The owner of the *sql.DB given to NewSQLiteFS closes it while the store is
\* in use: from then on every statement fails.
DB_Close ==
    /\ fs.db = "open"
    /\ fs' = [fs EXCEPT !.db = "closed"]
    /\ UNCHANGED <<store, writers, written, inflight, reader>>

----------------------------------------------------------------------------
(* SQLiteFile: the read cursor *)

NoFile ==
    [pc |-> "none", path |-> <<>>, offset |-> 0, size |-> 0, isDir |-> FALSE,
     plen |-> 0, total |-> 0, data |-> <<>>, pre |-> 0]

\* An error value that is not a *PathError: it carries no operation and no path.
NoPathError == [Op |-> "", Path |-> <<>>]

\* rd.err is the message of the error a call returned and rd.pathErr the
\* operation and path the error value carries.
NoResult ==
    [op |-> "none", n |-> 0, err |-> Nil, data |-> <<>>, pre |-> 0, buf |-> 0,
     name |-> <<>>, entries |-> <<>>, offset |-> 0, whence |-> 0,
     pathErr |-> NoPathError]

\* hist.nextId is the value of the id sequence when the handle was opened.
NoHist == [acc |-> <<>>, from |-> 0, afterClose |-> FALSE, seeked |-> "no", nextId |-> 0]

\* WHERE file_id = (SELECT id FROM file_metadata WHERE path = ?)
FragmentsOf(meta, frags, path) == {r \in frags : r.file_id \in IdsOfPath(meta, path)}

\* The smallest LENGTH(fragment) among a file's rows.
MinLength(rows) ==
    CHOOSE n \in {Len(r.fragment) : r \in rows} :
        \A r \in rows : n <= Len(r.fragment)

\* Mutant: the length of the last fragment is left out of the size.
getTotalSize_nolast(meta, frags, path) ==
    LET rows == FragmentsOf(meta, frags, path)
        count == Cardinality(rows)
    IN  IF count = 0 THEN 0 ELSE (count - 1) * fragmentSize

\* SQLiteFile.getTotalSize.  SELECT COUNT(*), COALESCE(LENGTH(fragment), 0) is an
\* aggregate without GROUP BY: it yields one row whatever the table holds (the
\* ErrNoRows branch is never taken), ORDER BY and LIMIT act on that one row, and
\* the bare column is read from the first row SQLite visits.  The scan runs
\* over idx_file_fragments_length (file_id, length(fragment)), which the schema
\* creates, so that row is the file's shortest fragment.
getTotalSize(meta, frags, path) ==
    LET rows == FragmentsOf(meta, frags, path)
        count == Cardinality(rows)
    IN  IF count = 0 THEN 0
        ELSE (count - 1) * fragmentSize + MinLength(rows)

\* The path tests of NewSQLiteFile: "", "/" and a trailing slash are directories.
IsDirPath(path) ==
    path = <<>> \/ path = <<"/">> \/ (Len(path) > 0 /\ path[Len(path)] = "/")

\* NewSQLiteFile
NewSQLiteFile(meta, frags, path) ==
    [NoFile EXCEPT !.pc = "idle", !.path = path, !.isDir = IsDirPath(path),
                   !.size = IF IsDirPath(path) THEN 0 ELSE getTotalSize(meta, frags, path)]

\* Mutant: the start of SUBSTR is ignored, the bytes are cut from the head of
\* the fragment.
SUBSTR_head(blob, start, length) == SubSeq(blob, 1, Min2(length, Len(blob)))

\* SUBSTR(fragment, start, length) on a blob, start >= 1
SUBSTR(blob, start, length) == SubSeq(blob, start, Min2(start + length - 1, Len(blob)))

\* A return of Read with n bytes, which are rd.data.
ReadReturn(f, n, err, data) ==
    /\ file' = [f EXCEPT !.pc = "idle", !.plen = 0, !.total = 0, !.data = <<>>, !.pre = 0]
    /\ rd' = [NoResult EXCEPT !.op = "Read", !.n = n, !.err = err, !.data = data,
                              !.pre = f.pre, !.buf = f.plen]
    /\ hist' = [hist EXCEPT !.acc = @ \o data]

\* Mutant: Read returns after the first fragment it has copied from.
BufferFull_first(g) == TRUE

\* if bytesReadTotal == len(p) { break }
BufferFull(g) == g.total = g.plen

\* SQLiteFile.Read, lines 81-97: the entry tests.
File_Read(plen) ==
    /\ file.pc = "idle"
    /\ LET f == [file EXCEPT !.plen = plen, !.pre = file.offset]
       IN  IF f.isDir THEN ReadReturn(f, 0, EOF, <<>>)
           ELSE IF plen = 0 THEN ReadReturn(f, 0, Nil, <<>>)
           ELSE IF f.offset >= f.size THEN ReadReturn(f, 0, EOF, <<>>)
           ELSE /\ file' = [f EXCEPT !.pc = "reading"]
                /\ UNCHANGED <<rd, hist>>
    /\ UNCHANGED <<store, writers, written, inflight, fs>>

\* Mutant: a missing fragment row is EOF even when bytes were already read.
NoRowsReturn_eof(f) == ReadReturn(f, 0, EOF, <<>>)

\* Mutant: a missing fragment row ends the call with the count and no error.
NoRowsReturn_count(f) == ReadReturn(f, f.total, Nil, f.data)

\* The branch err == sql.ErrNoRows of Read (lines 124-131).
NoRowsReturn(f) ==
    IF f.total > 0 THEN ReadReturn(f, f.total, Nil, f.data)
    ELSE ReadReturn(f, 0, EOF, <<>>)

\* Mutant: the cursor is put back to the start of the fragment it is in.
nextFragmentStart_same(fragmentIndex) == fragmentIndex * fragmentSize

\* nextFragmentStart := (fragmentIndex + 1) * fragmentSize
nextFragmentStart(fragmentIndex) == (fragmentIndex + 1) * fragmentSize

\* SQLiteFile.Read, lines 98-158: one turn of the loop, with its one query.
File_Read_loop ==
    /\ file.pc = "reading"
    /\ LET f == file
           fragmentIndex == f.offset \div fragmentSize
           internalOffset == f.offset % fragmentSize
           readLength == Min2(fragmentSize - internalOffset, f.plen - f.total)
           rows == {r \in FragmentsOf(file_metadata, file_fragments, f.path) :
                       r.fragment_index = fragmentIndex}
       IN  IF f.offset >= f.size
           THEN IF f.total = 0 THEN ReadReturn(f, 0, EOF, <<>>)
                ELSE ReadReturn(f, f.total, Nil, f.data)
           ELSE IF fs.db = "closed" THEN ReadReturn(f, f.total, ErrDBClosed, f.data)
           ELSE IF rows = {} THEN NoRowsReturn(f)
           ELSE LET fragment == SUBSTR((CHOOSE r \in rows : TRUE).fragment,
                                       internalOffset + 1, readLength)
                    bytesRead == Len(fragment)
                    g == [f EXCEPT !.total = f.total + bytesRead,
                                   !.offset = f.offset + bytesRead,
                                   !.data = f.data \o fragment]
                IN  IF bytesRead = 0
                    THEN IF g.offset >= g.size THEN ReadReturn(g, g.total, Nil, g.data)
                         ELSE /\ file' = [g EXCEPT !.offset = nextFragmentStart(fragmentIndex)]
                              /\ UNCHANGED <<rd, hist>>
                    ELSE IF BufferFull(g) THEN ReadReturn(g, g.total, Nil, g.data)
                    ELSE /\ file' = g
                         /\ UNCHANGED <<rd, hist>>
    /\ UNCHANGED <<store, writers, written, inflight, fs>>

SeekStart == 0
SeekCurrent == 1
SeekEnd == 2

\* Mutant: SeekStart is taken relative to the cursor.
SeekTarget_relative(f, offset, whence) ==
    IF whence = SeekStart \/ whence = SeekCurrent
    THEN [err |-> Nil, off |-> f.offset + offset]
    ELSE IF whence = SeekEnd
    THEN [err |-> Nil, off |-> getTotalSize(file_metadata, file_fragments, f.path) + offset]
    ELSE [err |-> ErrWhence, off |-> 0]

\* Mutant: SeekEnd counts from the size cached in the handle.
SeekTarget_cached(f, offset, whence) ==
    IF whence = SeekStart THEN [err |-> Nil, off |-> offset]
    ELSE IF whence = SeekCurrent THEN [err |-> Nil, off |-> f.offset + offset]
    ELSE IF whence = SeekEnd THEN [err |-> Nil, off |-> f.size + offset]
    ELSE [err |-> ErrWhence, off |-> 0]

\* The offset Seek computes, or an error.
SeekTarget(f, offset, whence) ==
    IF whence = SeekStart THEN [err |-> Nil, off |-> offset]
    ELSE IF whence = SeekCurrent THEN [err |-> Nil, off |-> f.offset + offset]
    ELSE IF whence = SeekEnd
    THEN [err |-> Nil, off |-> getTotalSize(file_metadata, file_fragments, f.path) + offset]
    ELSE [err |-> ErrWhence, off |-> 0]

\* Mutant: the cursor is moved before the tests, so a failed Seek moves it.
File_Seek_eager(offset, whence) ==
    /\ file.pc = "idle"
    /\ LET t == SeekTarget(file, offset, whence)
           err == IF t.err # Nil THEN t.err
                  ELSE IF t.off < 0 THEN ErrNegative ELSE Nil
       IN  /\ t.off <= MaxOffset
           /\ file' = [file EXCEPT !.offset = t.off]
           /\ rd' = [NoResult EXCEPT !.op = "Seek", !.err = err,
                                     !.n = IF err = Nil THEN t.off ELSE 0,
                                     !.pre = file.offset,
                                     !.offset = offset, !.whence = whence]
           /\ hist' = IF err # Nil THEN hist
                      ELSE IF whence = SeekStart
                      THEN [hist EXCEPT !.acc = <<>>, !.from = offset, !.seeked = "start"]
                      ELSE [hist EXCEPT !.acc = <<>>, !.from = t.off, !.seeked = "other"]
    /\ UNCHANGED <<store, writers, written, inflight, fs>>

\* Mutant: a Seek past the end stops at the size.
File_Seek_clamped(offset, whence) ==
    /\ file.pc = "idle"
    /\ LET t == SeekTarget(file, offset, whence)
           err == IF t.err # Nil THEN t.err
                  ELSE IF t.off < 0 THEN ErrNegative ELSE Nil
           off == Min2(t.off, file.size)
       IN  /\ t.off <= MaxOffset
           /\ file' = IF err = Nil THEN [file EXCEPT !.offset = off] ELSE file
           /\ rd' = [NoResult EXCEPT !.op = "Seek", !.err = err,
                                     !.n = IF err = Nil THEN off ELSE 0,
                                     !.pre = file.offset,
                                     !.offset = offset, !.whence = whence]
           /\ hist' = IF err # Nil THEN hist
                      ELSE IF whence = SeekStart
                      THEN [hist EXCEPT !.acc = <<>>, !.from = offset, !.seeked = "start"]
                      ELSE [hist EXCEPT !.acc = <<>>, !.from = off, !.seeked = "other"]
    /\ UNCHANGED <<store, writers, written, inflight, fs>>

\* SQLiteFile.Seek
File_Seek(offset, whence) ==
    /\ file.pc = "idle"
    /\ LET t == SeekTarget(file, offset, whence)
           err == IF t.err # Nil THEN t.err
                  ELSE IF t.off < 0 THEN ErrNegative ELSE Nil
       IN  /\ t.off <= MaxOffset
           /\ file' = IF err = Nil THEN [file EXCEPT !.offset = t.off] ELSE file
           /\ rd' = [NoResult EXCEPT !.op = "Seek", !.err = err,
                                     !.n = IF err = Nil THEN t.off ELSE 0,
                                     !.pre = file.offset,
                                     !.offset = offset, !.whence = whence]
           /\ hist' = IF err # Nil THEN hist
                      ELSE IF whence = SeekStart
                      THEN [hist EXCEPT !.acc = <<>>, !.from = offset, !.seeked = "start"]
                      ELSE [hist EXCEPT !.acc = <<>>, !.from = t.off, !.seeked = "other"]
    /\ UNCHANGED <<store, writers, written, inflight, fs>>

----------------------------------------------------------------------------
(* SQLiteFS.Open: path resolution *)

\* ASCII case folding, as SQLite's LIKE compares letters.
Fold(c) == IF c = "A" THEN "a" ELSE IF c = "B" THEN "b" ELSE c

RECURSIVE Like(_, _)
\* str LIKE pat in SQLite: % matches any run of characters, _ any one
\* character, and letters match without regard to case.
Like(str, pat) ==
    IF pat = <<>> THEN str = <<>>
    ELSE IF Head(pat) = "%"
    THEN Like(str, Tail(pat)) \/ (str # <<>> /\ Like(Tail(str), pat))
    ELSE /\ str # <<>>
         /\ (Head(pat) = "_" \/ Fold(Head(pat)) = Fold(Head(str)))
         /\ Like(Tail(str), Tail(pat))

\* SELECT EXISTS(SELECT 1 FROM file_metadata WHERE path LIKE ?) with dirPath + "%"
ExistsLike(meta, dirPath) == \E r \in meta : Like(r.path, dirPath \o <<"%">>)

\* SELECT EXISTS(SELECT 1 FROM file_metadata WHERE path = ?)
ExistsPath(meta, path) == \E r \in meta : r.path = path

\* SQLiteFS.Error: a *PathError with Op "open" and the path it is given.
FS_Error(path) == [Op |-> "open", Path |-> path]

\* The name Open goes on with: "" and "." stand for "/".
openName(name) == IF name = <<>> \/ name = <<".">> THEN <<"/">> ELSE name

\* The path Open looks up: "" and "." stand for "/", one leading slash is cut.
dbPathOf(name) ==
    LET n == IF name = <<>> \/ name = <<".">> THEN <<"/">> ELSE name
    IN  IF Len(n) > 0 /\ n[1] = "/" THEN Tail(n) ELSE n

\* The prefix Open tests when there is no exact row: dbPath with a slash
\* appended unless it is empty or ends in one.
dirPathOf(dbPath) ==
    IF Len(dbPath) > 0 /\ dbPath[Len(dbPath)] # "/" THEN dbPath \o <<"/">> ELSE dbPath

\* What SQLiteFS.Open returns: the handle, or no handle and an error.
OpenResult(meta, frags, name) ==
    LET dbPath == dbPathOf(name)
        dirPath == dirPathOf(dbPath)
    IN  IF ExistsPath(meta, dbPath)
        THEN [err |-> Nil, f |-> NewSQLiteFile(meta, frags, dbPath)]
        ELSE IF ExistsLike(meta, dirPath)
        THEN [err |-> Nil, f |-> NewSQLiteFile(meta, frags, dirPath)]
        ELSE [err |-> ErrNotExist, f |-> NoFile]

\* A session on this path has closed with success and no other session
\* writes the path: what the path holds is that session's stream.
ClosedAlone(path) ==
    \E w \in Writers :
        /\ writers[w].path = path /\ writers[w].closedOk
        /\ \A v \in Writers \ {w} : writers[v].path # path

\* SQLiteFS.Open
FS_Open(name) ==
    /\ file.pc \in {"none", "idle"}
    /\ LET res == OpenResult(file_metadata, file_fragments, name)
       IN  /\ file' = res.f
           /\ rd' = [NoResult EXCEPT !.op = "Open", !.err = res.err, !.name = name,
                                     !.pathErr = IF res.err = Nil THEN NoPathError
                                                 ELSE FS_Error(openName(name))]
           /\ hist' = [acc |-> <<>>, from |-> 0, seeked |-> "no", nextId |-> nextId,
                       afterClose |-> (res.err = Nil /\ ClosedAlone(res.f.path))]
    /\ UNCHANGED <<store, writers, written, inflight, fs>>

----------------------------------------------------------------------------
(* SQLiteFile.ReadDir and Stat: the directory view over the flat path table *)

\* strings.HasPrefix, strings.HasSuffix(s, "/"), strings.TrimPrefix
HasPrefix(str, pre) == Len(pre) <= Len(str) /\ SubSeq(str, 1, Len(pre)) = pre
EndsInSlash(str) == Len(str) > 0 /\ str[Len(str)] = "/"
TrimPrefix(str, pre) ==
    IF HasPrefix(str, pre) THEN SubSeq(str, Len(pre) + 1, Len(str)) ELSE str

\* The place of the first "/" of str, 0 when it has none.
FirstSlash(str) ==
    IF \E i \in 1..Len(str) : str[i] = "/"
    THEN CHOOSE i \in 1..Len(str) : str[i] = "/" /\ \A j \in 1..(i - 1) : str[j] # "/"
    ELSE 0

\* parts := strings.SplitN(str, "/", 2): parts[0] and len(parts)
SplitHead(str) == IF FirstSlash(str) = 0 THEN str ELSE SubSeq(str, 1, FirstSlash(str) - 1)
SplitCount(str) == IF FirstSlash(str) = 0 THEN 1 ELSE 2

IsRootPath(path) == path = <<>> \/ path = <<"/">>

\* dirPath of ReadDir: f.path with a slash appended unless it ends in one.
WithSlash(path) == IF EndsInSlash(path) THEN path ELSE path \o <<"/">>

RECURSIVE InIdOrder(_)
\* The rows of a scan of file_metadata: in rowid order.
InIdOrder(rows) ==
    IF rows = {} THEN <<>>
    ELSE LET first == CHOOSE r \in rows : \A q \in rows : r.id <= q.id
         IN  <<first>> \o InIdOrder(rows \ {first})

\* The rows ReadDir scans: every row for the root, else the rows whose path is
\* LIKE dirPath% and is not dirPath itself.
ReadDirRows(meta, path) ==
    IF IsRootPath(path) THEN InIdOrder(meta)
    ELSE InIdOrder({r \in meta :
            Like(r.path, WithSlash(path) \o <<"%">>) /\ r.path # WithSlash(path)})

\* childName, childPath and isSubDir of one scanned row (lines 237-269).
ChildOf(dir, path) ==
    LET relPath == IF IsRootPath(dir) THEN path ELSE TrimPrefix(path, WithSlash(dir))
        childName == SplitHead(relPath)
        isSubDir == SplitCount(relPath) > 1 \/ EndsInSlash(path)
        base == IF IsRootPath(dir) THEN childName ELSE WithSlash(dir) \o childName
    IN  [childName |-> childName, isSubDir |-> isSubDir,
         childPath |-> IF isSubDir /\ ~EndsInSlash(base) THEN base \o <<"/">> ELSE base]

RECURSIVE SumLen(_)
\* SUM(LENGTH(fragment)) over a set of rows, 0 for none.
SumLen(rows) ==
    IF rows = {} THEN 0
    ELSE LET r == CHOOSE x \in rows : TRUE IN Len(r.fragment) + SumLen(rows \ {r})

\* The entry ReadDir appends for a child (lines 277-305).
EntryOf(meta, frags, c, path) ==
    [name |-> c.childName, isDir |-> c.isSubDir,
     size |-> IF c.isSubDir THEN 0 ELSE SumLen(FragmentsOf(meta, frags, path))]

RECURSIVE ReadDirScan(_, _, _, _, _, _, _, _)
\* The loop over the rows (lines 226-313): skip the directory itself and the
\* children already seen, stop when n > 0 entries are collected.
ReadDirScan(meta, frags, rows, i, dir, n, entries, seenPaths) ==
    IF i > Len(rows) THEN entries
    ELSE LET path == rows[i].path
             c == ChildOf(dir, path)
         IN  IF (~IsRootPath(dir) /\ path = WithSlash(dir)) \/ c.childPath \in seenPaths
             THEN ReadDirScan(meta, frags, rows, i + 1, dir, n, entries, seenPaths)
             ELSE LET es == Append(entries, EntryOf(meta, frags, c, path))
                  IN  IF n > 0 /\ Len(es) >= n THEN es
                      ELSE ReadDirScan(meta, frags, rows, i + 1, dir, n, es,
                                       seenPaths \cup {c.childPath})

\* The existence test ReadDir makes when it found no entry (lines 320-338).
DirExists(meta, path) ==
    IF IsRootPath(path) THEN meta # {}
    ELSE ExistsLike(meta, WithSlash(path))

\* Mutant: the listing is made without the test of f.isDir.
ReadDirResult_anyhandle(meta, frags, f, n) ==
    LET es == ReadDirScan(meta, frags, ReadDirRows(meta, f.path), 1, f.path, n, <<>>, {})
    IN  IF es = <<>> /\ ~DirExists(meta, f.path)
        THEN [err |-> ErrDirNotFound, entries |-> <<>>]
        ELSE [err |-> Nil, entries |-> es]

\* What SQLiteFile.ReadDir(n) returns.
ReadDirResult(meta, frags, f, n) ==
    IF ~f.isDir THEN [err |-> ErrNotADir, entries |-> <<>>]
    ELSE LET es == ReadDirScan(meta, frags, ReadDirRows(meta, f.path), 1, f.path, n, <<>>, {})
         IN  IF es = <<>> /\ ~DirExists(meta, f.path)
             THEN [err |-> ErrDirNotFound, entries |-> <<>>]
             ELSE [err |-> Nil, entries |-> es]

\* SQLiteFile.ReadDir
File_ReadDir(n) ==
    /\ file.pc = "idle"
    /\ LET res == ReadDirResult(file_metadata, file_fragments, file, n)
       IN  rd' = [NoResult EXCEPT !.op = "ReadDir", !.err = res.err, !.n = n,
                                 !.entries = res.entries]
    /\ UNCHANGED <<store, writers, written, inflight, file, hist, fs>>

RECURSIVE StripSlashes(_)
\* path without its trailing slashes
StripSlashes(path) ==
    IF EndsInSlash(path) THEN StripSlashes(SubSeq(path, 1, Len(path) - 1)) ELSE path

RECURSIVE LastElement(_)
\* the part of path after its last slash
LastElement(path) ==
    IF FirstSlash(path) = 0 THEN path
    ELSE LastElement(SubSeq(path, FirstSlash(path) + 1, Len(path)))

\* filepath.Base
Base(path) ==
    IF path = <<>> THEN <<".">>
    ELSE IF StripSlashes(path) = <<>> THEN <<"/">>
    ELSE LastElement(StripSlashes(path))

\* The name createFileInfo reports (lines 548-555).
InfoName(path) ==
    IF Base(path) \in {<<"/">>, <<".">>, <<>>} THEN <<"/">>
    ELSE IF EndsInSlash(path) THEN Base(SubSeq(path, 1, Len(path) - 1))
    ELSE Base(path)

\* SQLiteFile.createFileInfo: a file must have a row with type = 'file'; the
\* root always exists; another directory exists when a path is LIKE dirPath%
\* or equal to it.
createFileInfo(meta, frags, f, path) ==
    LET isDir == f.isDir \/ IsRootPath(path) \/ EndsInSlash(path)
        fileRows == {r \in meta : r.path = path /\ r.type = "file"}
        found ==
            IF ~isDir THEN fileRows # {}
            ELSE IF IsRootPath(path) THEN TRUE
            ELSE ExistsLike(meta, WithSlash(path)) \/ ExistsPath(meta, path)
        size ==
            IF isDir \/ fileRows = {} THEN 0
            ELSE SumLen({r \in frags : r.file_id \in {x.id : x \in fileRows}})
    IN  IF ~found THEN [err |-> ErrNotExist, entries |-> <<>>]
        ELSE [err |-> Nil,
              entries |-> <<[name |-> InfoName(path), isDir |-> isDir, size |-> size]>>]

\* SQLiteFile.Stat
File_Stat ==
    /\ file.pc = "idle"
    /\ LET res == createFileInfo(file_metadata, file_fragments, file, file.path)
       IN  rd' = [NoResult EXCEPT !.op = "Stat", !.err = res.err, !.entries = res.entries]
    /\ UNCHANGED <<store, writers, written, inflight, file, hist, fs>>

RECURSIVE ReaddirScan(_, _, _, _, _, _, _, _)
\* The loop of Readdir over the rows (lines 384-446): as in ReadDir, but each
\* entry is createFileInfo(childPath), whose error ends the call.
ReaddirScan(meta, frags, rows, i, f, count, fileInfos, seenPaths) ==
    IF i > Len(rows) THEN [err |-> Nil, entries |-> fileInfos]
    ELSE LET path == rows[i].path
             c == ChildOf(f.path, path)
             info == createFileInfo(meta, frags, f, c.childPath)
         IN  IF (~IsRootPath(f.path) /\ path = WithSlash(f.path)) \/ c.childPath \in seenPaths
             THEN ReaddirScan(meta, frags, rows, i + 1, f, count, fileInfos, seenPaths)
             ELSE IF info.err # Nil THEN [err |-> info.err, entries |-> <<>>]
             ELSE LET fi == fileInfos \o info.entries
                  IN  IF count > 0 /\ Len(fi) >= count THEN [err |-> Nil, entries |-> fi]
                      ELSE ReaddirScan(meta, frags, rows, i + 1, f, count, fi,
                                       seenPaths \cup {c.childPath})

\* What SQLiteFile.Readdir(count) returns.
ReaddirResult(meta, frags, f, count) ==
    IF ~f.isDir THEN [err |-> ErrNotADir, entries |-> <<>>]
    ELSE LET res == ReaddirScan(meta, frags, ReadDirRows(meta, f.path), 1, f, count, <<>>, {})
         IN  IF res.err = Nil /\ res.entries = <<>> /\ ~DirExists(meta, f.path)
             THEN [err |-> ErrDirNotFound, entries |-> <<>>]
             ELSE res

\* SQLiteFile.Readdir
File_Readdir(count) ==
    /\ file.pc = "idle"
    /\ LET res == ReaddirResult(file_metadata, file_fragments, file, count)
       IN  rd' = [NoResult EXCEPT !.op = "Readdir", !.err = res.err, !.n = count,
                                 !.entries = res.entries]
    /\ UNCHANGED <<store, writers, written, inflight, file, hist, fs>>

----------------------------------------------------------------------------
(* Two sessions writing concurrently *)

PathA == <<"a">>
PathB == <<"b">>

\* The k-th byte of the stream of session w: distinct per session and position,
\* so that a lost, repeated, misplaced or foreign byte shows.
StreamByte(w, k) == 100 * w + k

\* The next n bytes of the stream of session w.
NextData(w, n) == [i \in 1..n |-> StreamByte(w, Len(written[w]) + i)]

Init ==
    /\ file_metadata = {}
    /\ file_fragments = {}
    /\ nextId = 1
    /\ writers = [w \in Writers |-> NoSession]
    /\ written = [w \in Writers |-> <<>>]
    /\ inflight = {}
    /\ file = NoFile
    /\ rd = NoResult
    /\ hist = NoHist
    /\ fs = NewSQLiteFS

Next ==
    \/ \E w \in Writers, p \in {PathA, PathB} : NewWriter(w, p)
    \/ \E w \in Writers, n \in 0..MaxWrite :
          /\ Len(written[w]) + n <= MaxLen
          /\ Writer_Write(w, NextData(w, n))
    \/ \E w \in Writers : Writer_Close(w)
    \/ \E w \in Writers : writerLoop_recv(w)
    \/ \E r \in inflight : writerLoop_exec(r)
    \/ \E r \in inflight : writerLoop_reply(r)

Spec == Init /\ [][Next]_vars

----------------------------------------------------------------------------
(* What a path holds *)

RECURSIVE ConcatFrom(_, _)
\* The fragments of a set of rows put end to end from index i, in index order.
ConcatFrom(rows, i) ==
    IF \A r \in rows : r.fragment_index < i THEN <<>>
    ELSE LET here == {r \in rows : r.fragment_index = i}
         IN  (IF here = {} THEN <<>> ELSE (CHOOSE r \in here : TRUE).fragment)
                 \o ConcatFrom(rows, i + 1)

\* The bytes stored for a path: its fragments in fragment_index order.
StoredBytes(path) == ConcatFrom(FragmentsOf(file_metadata, file_fragments, path), 0)

\* Session w is the only session on its path.
AlonePath(w) == \A v \in Writers \ {w} : writers[v].path # writers[w].path

\* The transactions of writeFragment that are open.
OpenCommits == {r \in inflight : r.phase = "exec" /\ r.mimeType = ""}

----------------------------------------------------------------------------
(* Claims *)

\* C2: two sessions on different paths, under every interleaving of their
\* Write and Close calls: no call returns an error (other than a Write made
\* after the session's own Close), no two fragment commits
\* (nor any two requests) are in progress at the same time, and once a session
\* has closed its path holds exactly the bytes that session was given.
C2_SerializedWriters ==
    (writers[1].pc # "none" /\ writers[2].pc # "none"
        /\ writers[1].path # writers[2].path) =>
      /\ \A w \in Writers :
            writers[w].ret.err # Nil =>
                (writers[w].closedOk /\ writers[w].ret.err = ErrClosed)
      /\ Cardinality(OpenCommits) <= 1
      /\ Cardinality(inflight) <= 1
      /\ \A w \in Writers :
            writers[w].closedOk => StoredBytes(writers[w].path) = written[w]

\* Both sessions closed, on different paths, each having flushed a full
\* fragment in Write and a trailing one in Close.
C2_Witness ==
    /\ writers[1].closedOk /\ writers[2].closedOk
    /\ writers[1].path # writers[2].path
    /\ \A w \in Writers : Len(written[w]) > fragmentSize /\ Len(written[w]) % fragmentSize # 0

\* C3: after a session that is alone on its path has closed with L >= 1 bytes,
\* the stored fragment indices are exactly 0..ceil(L/F)-1, every fragment but
\* the last has length F and the last has length L mod F, or F when F divides L.
C3_Fragmentation ==
    \A w \in Writers :
        (writers[w].closedOk /\ AlonePath(w) /\ Len(written[w]) >= 1) =>
            LET L == Len(written[w])
                n == (L + fragmentSize - 1) \div fragmentSize
                rows == FragmentsOf(file_metadata, file_fragments, writers[w].path)
            IN  /\ {r.fragment_index : r \in rows} = 0..(n - 1)
                /\ Cardinality(rows) = n
                /\ \A r \in rows :
                      Len(r.fragment) =
                          IF r.fragment_index < n - 1 THEN fragmentSize
                          ELSE IF L % fragmentSize = 0 THEN fragmentSize
                          ELSE L % fragmentSize

\* A closed session of more than two fragments with a short last one, and one
\* whose length is a multiple of the fragment size.
C3_Witness ==
    /\ writers[1].closedOk /\ writers[2].closedOk
    /\ AlonePath(1)
    /\ Len(written[1]) > 2 * fragmentSize /\ Len(written[1]) % fragmentSize # 0
    /\ Len(written[2]) = 2 * fragmentSize

\* C6: a Close on a session whose Close has already returned success returns
\* success, sends no request to the writer loop and changes neither the store
\* nor the session.
C6_IdempotentClose ==
    [][\A w \in Writers :
          (writers[w].closedOk /\ Writer_Close(w)) =>
             /\ writers'[w].ret = [op |-> "Close", n |-> 0, err |-> Nil]
             /\ writers'[w].pc = "idle"
             /\ writers'[w] = [writers[w] EXCEPT !.ret = writers'[w].ret]
             /\ inflight' = inflight
             /\ store' = store]_vars

\* A second Close has returned success: the session is closed and its last
\* call, after a rejected Write, was a Close.
C6_Witness ==
    \E w \in Writers :
        /\ writers[w].closedOk
        /\ writers[w].ret = [op |-> "Close", n |-> 0, err |-> Nil]
        /\ Len(written[w]) > fragmentSize
        /\ writers[w].fragmentIndex > 1

\* C7: a Write on a session whose Close has returned success fails with
\* "write to closed writer" and 0 bytes, sends nothing to the writer loop and
\* leaves the buffer, the fragment index and the store unchanged.
C7_WriteAfterClose ==
    [][\A w \in Writers : \A n \in 0..MaxWrite :
          (writers[w].closedOk /\ Writer_Write(w, NextData(w, n))) =>
             /\ writers'[w].ret = [op |-> "Write", n |-> 0, err |-> ErrClosed]
             /\ writers'[w].pc = "idle"
             /\ writers'[w].buffer = writers[w].buffer
             /\ writers'[w].fragmentIndex = writers[w].fragmentIndex
             /\ written' = written
             /\ inflight' = inflight
             /\ store' = store]_vars

\* A Write was rejected on a closed session.
C7_Witness ==
    \E w \in Writers :
        /\ writers[w].closedOk
        /\ writers[w].ret = [op |-> "Write", n |-> 0, err |-> ErrClosed]

----------------------------------------------------------------------------
(* One session, then a reader: write, close, open, read and seek *)

\* Longest stream of the session that is read back.
MaxLenRT == 7

\* Largest buffer handed to Read.
MaxBuf == 5

\* The caller is one goroutine that writes first and reads afterwards: it
\* reads only while it is not inside a Write or Close of its session, and
\* once it has opened a handle it leaves the session as it is.
CallerFree == writers[1].pc \in {"none", "idle"}

StillWriting == file.pc = "none" /\ rd.op = "none"

\* The caller opens the file before it has made a session or after it has
\* closed the one it made.
SessionOver == writers[1].pc = "none" \/ (writers[1].pc = "idle" /\ writers[1].closed)

NextRT ==
    \/ StillWriting /\ NewWriter(1, PathA)
    \/ \E n \in 0..MaxWrite :
          /\ StillWriting
          /\ Len(written[1]) + n <= MaxLenRT
          /\ Writer_Write(1, NextData(1, n))
    \/ StillWriting /\ Writer_Close(1)
    \/ writerLoop_recv(1)
    \/ \E r \in inflight : writerLoop_exec(r)
    \/ \E r \in inflight : writerLoop_reply(r)
    \/ \E name \in {PathA, <<"/">> \o PathA} : SessionOver /\ FS_Open(name)
    \/ \E plen \in 0..MaxBuf : CallerFree /\ File_Read(plen)
    \/ CallerFree /\ File_Read_loop
    \/ \E offset \in -1..MaxOffset, whence \in 0..3 :
          CallerFree /\ File_Seek(offset, whence)
    \/ CallerFree /\ File_Stat

SpecRT == Init /\ [][NextRT]_vars

\* The stream of the one session of SpecRT, and its length.
B == written[1]
S == Len(written[1])

\* What the handle has returned since its last Open or Seek is the part of B
\* that starts at hist.from.
AccIsPartOfB ==
    /\ hist.from + Len(hist.acc) <= S
    /\ hist.acc = SubSeq(B, hist.from + 1, hist.from + Len(hist.acc))

\* C1: round trip. After the session has closed with success, Open of its
\* path followed by Read calls returns the bytes of B in order, no Read fails,
\* and when a Read reports EOF the bytes returned since Open are exactly B;
\* for every length 0..MaxLenRT of B and every split into Write calls.
C1_RoundTrip ==
    (hist.afterClose /\ hist.seeked = "no") =>
        /\ AccIsPartOfB
        /\ rd.op = "Read" => rd.err \in {Nil, EOF}
        /\ (rd.op = "Read" /\ rd.err = EOF) => hist.acc = B

\* B of three fragments and one more byte was read back to EOF.
C1_Witness ==
    /\ hist.afterClose /\ hist.seeked = "no"
    /\ rd.op = "Read" /\ rd.err = EOF
    /\ hist.acc = B
    /\ S = 3 * fragmentSize + 1

C5_SeekRead ==
    (hist.afterClose /\ hist.seeked = "start" /\ 0 <= hist.from /\ hist.from <= S) =>
        /\ AccIsPartOfB
        /\ rd.op = "Read" => rd.err \in {Nil, EOF}
        /\ (rd.op = "Read" /\ rd.err = EOF) => hist.acc = SubSeq(B, hist.from + 1, S)

\* A Seek into the middle of the second fragment was followed by reads up to
\* EOF.
C5_Witness ==
    /\ hist.afterClose /\ hist.seeked = "start"
    /\ hist.from = fragmentSize + 1
    /\ S > 2 * fragmentSize
    /\ rd.op = "Read" /\ rd.err = EOF
    /\ Len(hist.acc) = S - hist.from

----------------------------------------------------------------------------
(* Several files, then path resolution and directory listings *)

\* Most sessions, hence most rows of file_metadata.
MaxFiles == 2

\* The lengths of the one Write a session of this scenario may make.
DirWrites == {0, 1}

\* The paths the sessions write: plain files, files below a directory, a file
\* and a directory of one name, and malformed paths (a trailing slash, a
\* leading slash).
DirPaths ==
    {<<"a">>, <<"b", "/", "c">>, <<"b", "/", "d">>, <<"b">>, <<"b", "/">>,
     <<"/", "a">>}

\* The names handed to Open.
OpenNames ==
    {<<>>, <<"/">>, <<"a">>, <<"/", "a">>, <<"b">>, <<"b", "/">>, <<"B">>,
     <<"c">>, <<"b", "/", "c">>}

\* The caller lets go of a writer it has closed; the next NewWriter makes a
\* new SQLiteWriter.
DropWriter(w) ==
    /\ writers[w].pc = "idle"
    /\ writers[w].closed
    /\ writers' = [writers EXCEPT ![w] = NoSession]
    /\ written' = [written EXCEPT ![w] = <<>>]
    /\ UNCHANGED <<store, inflight, reader, fs>>

NextDir ==
    \/ \E p \in DirPaths : StillWriting /\ nextId <= MaxFiles /\ NewWriter(1, p)
    \/ \E n \in DirWrites :
          /\ StillWriting
          /\ written[1] = <<>>
          /\ Writer_Write(1, NextData(1, n))
    \/ StillWriting /\ Writer_Close(1)
    \/ StillWriting /\ DropWriter(1)
    \/ writerLoop_recv(1)
    \/ \E r \in inflight : writerLoop_exec(r)
    \/ \E r \in inflight : writerLoop_reply(r)
    \/ \E name \in OpenNames : CallerFree /\ FS_Open(name)
    \/ \E n \in 0..2 : CallerFree /\ File_ReadDir(n)
    \/ \E count \in 0..2 : CallerFree /\ File_Readdir(count)
    \/ CallerFree /\ File_Stat

SpecDir == Init /\ [][NextDir]_vars

\* C8: the root always exists: in every store state, a store without any row
\* included, Open of "" or "/" succeeds and returns a directory handle whose
\* Stat succeeds with isDir = true.
C8_RootAlwaysExists ==
    [][\A name \in {<<>>, <<"/">>} :
          FS_Open(name) =>
              /\ rd'.err = Nil
              /\ file'.isDir
              /\ LET info == createFileInfo(file_metadata', file_fragments', file', file'.path)
                 IN  info.err = Nil /\ info.entries[1].isDir]_vars

\* C9: path resolution: for every name other than the root's, Open(name),
\* one leading slash cut, returns a file handle when a row of a file (a path
\* that does not end in a slash) has exactly that path; else a directory
\* handle if and only if some row's path starts with the name followed by a
\* slash (appended if absent); else it fails with NotFound.
C9_PathResolution ==
    [][\A name \in OpenNames \ {<<>>, <<"/">>} :
          FS_Open(name) =>
              LET p == IF name[1] = "/" THEN Tail(name) ELSE name
                  isFile == \E r \in file_metadata : r.path = p /\ ~EndsInSlash(p)
                  isDirectory == \E r \in file_metadata : HasPrefix(r.path, WithSlash(p))
              IN  IF isFile THEN rd'.err = Nil /\ ~file'.isDir
                  ELSE IF isDirectory THEN rd'.err = Nil /\ file'.isDir
                  ELSE rd'.err = ErrNotExist]_vars

\* C10: listing correctness: an unbounded listing (n <= 0) of a directory of
\* the store (the root, or a prefix of some row's path) returns exactly one
\* entry per distinct immediate child name, the first segment after the
\* directory prefix of each path below the directory; an entry is a directory
\* iff some such path continues past that segment, otherwise a file. With the
\* stored paths {a, b/c}, the root lists exactly a (file) and b (directory).
C10_ListingCorrectness ==
    [][\A n \in {-1, 0} :
          LET D == IF IsRootPath(file.path) THEN <<>> ELSE WithSlash(file.path)
              below == {r.path : r \in {x \in file_metadata :
                                           HasPrefix(x.path, D) /\ x.path # D}}
              names == {SplitHead(TrimPrefix(q, D)) : q \in below}
              continues(nm) ==
                  \E q \in below : /\ SplitHead(TrimPrefix(q, D)) = nm
                                    /\ SplitCount(TrimPrefix(q, D)) > 1
              es == rd'.entries
          IN  (/\ File_ReadDir(n)
               /\ file.isDir
               /\ (IsRootPath(file.path) \/ \E r \in file_metadata : HasPrefix(r.path, D)))
              => /\ rd'.err = Nil
                 /\ Len(es) = Cardinality(names)
                 /\ {es[i].name : i \in 1..Len(es)} = names
                 /\ \A i \in 1..Len(es) : es[i].isDir <=> continues(es[i].name)
                 /\ ({r.path : r \in file_metadata} = {<<"a">>, <<"b", "/", "c">>}
                         /\ IsRootPath(file.path)
                     => {<<es[i].name, es[i].isDir>> : i \in 1..Len(es)}
                            = {<<(<<"a">>), FALSE>>, <<(<<"b">>), TRUE>>})]_vars

\* C11: whatever paths are stored, malformed ones included, no entry that a
\* directory listing (ReadDir or Readdir, any directory, any limit) returns is
\* named "" or "/".
C11_NoEmptyNames ==
    rd.op \in {"ReadDir", "Readdir"} =>
        \A i \in 1..Len(rd.entries) : rd.entries[i].name \notin {<<>>, <<"/">>}

\* C12: successive bounded listing calls (limit > 0) on one directory handle
\* return disjoint pages that advance through the directory: a call that
\* follows a bounded call of the same operation on the handle returns no child
\* that the call before it returned.
C12_DisjointPages ==
    [][\A n \in 1..2 :
          LET before == {rd.entries[i].name : i \in 1..Len(rd.entries)}
              after == {rd'.entries[i].name : i \in 1..Len(rd'.entries)}
          IN  /\ (File_ReadDir(n) /\ rd.op = "ReadDir" /\ rd.n > 0 /\ rd.err = Nil)
                    => (before \cap after = {})
              /\ (File_Readdir(n) /\ rd.op = "Readdir" /\ rd.n > 0 /\ rd.err = Nil)
                    => (before \cap after = {})]_vars

----------------------------------------------------------------------------
(* Seek: rejected and accepted targets *)

\* C13: a Seek whose whence is none of Start, Current, End, or whose resulting
\* offset would be negative, fails (invalid whence, negative position) and
\* leaves the cursor where it was.
C13_SeekRejected ==
    LET rejected ==
            \/ rd.whence \notin {SeekStart, SeekCurrent, SeekEnd}
            \/ rd.whence = SeekStart /\ rd.offset < 0
            \/ rd.whence = SeekCurrent /\ rd.pre + rd.offset < 0
            \/ rd.whence = SeekEnd /\ hist.afterClose /\ S + rd.offset < 0
    IN  (rd.op = "Seek" /\ file.pc = "idle" /\ rejected)
            => /\ rd.err \in {ErrWhence, ErrNegative}
               /\ rd.n = 0
               /\ file.offset = rd.pre

\* A Seek to a negative position failed with the cursor inside the file.
C13_Witness ==
    /\ rd.op = "Seek" /\ rd.err = ErrNegative
    /\ rd.pre > 0 /\ file.offset = rd.pre

\* C14: a Seek to a resulting offset >= 0 succeeds, beyond the size of the
\* file too, returns that offset and leaves the cursor there; a Read with a
\* non-empty buffer at a cursor beyond the size returns (0, EOF) and does not
\* move the cursor.
C14_SeekBeyondEnd ==
    LET target == IF rd.whence = SeekStart THEN rd.offset
                  ELSE IF rd.whence = SeekCurrent THEN rd.pre + rd.offset
                  ELSE S + rd.offset
    IN  /\ (rd.op = "Seek" /\ file.pc = "idle"
                /\ rd.whence \in {SeekStart, SeekCurrent, SeekEnd}
                /\ (rd.whence = SeekEnd => hist.afterClose)
                /\ target >= 0)
                => (rd.err = Nil /\ rd.n = target /\ file.offset = target)
        /\ (hist.afterClose /\ rd.op = "Read" /\ rd.buf > 0 /\ rd.pre > S)
                => (rd.n = 0 /\ rd.err = EOF /\ file.offset = rd.pre)

\* A Read at a cursor that a Seek had put beyond the end of a non-empty file
\* returned EOF.
C14_Witness ==
    /\ hist.afterClose /\ S > 0
    /\ rd.op = "Read" /\ rd.buf > 0 /\ rd.pre > S /\ rd.err = EOF

----------------------------------------------------------------------------
(* Listings and handles on files *)

\* C15: a directory listing (ReadDir or Readdir, any limit) on a handle that
\* was opened on a file, that is on the path of a row that does not end in a
\* slash, fails with "not a directory" and returns no entry, whatever the
\* store holds.
C15_ListingOnFile ==
    (/\ rd.op \in {"ReadDir", "Readdir"}
     /\ file.path # <<>> /\ ~EndsInSlash(file.path)
     /\ ExistsPath(file_metadata, file.path))
        => (rd.err = ErrNotADir /\ rd.entries = <<>>)

\* A listing was refused on the handle of the file b while b/c was stored too.
C15_Witness ==
    /\ rd.op = "ReadDir" /\ rd.err = ErrNotADir
    /\ file.path = <<"b">>
    /\ ExistsPath(file_metadata, <<"b", "/", "c">>)

\* C16: a session closed without a byte written still creates its file:
\* afterwards Open of the path succeeds with a file handle, Stat reports size 0
\* and isDir = false, and a Read with a non-empty buffer returns (0, EOF).
C16_EmptyFile ==
    (writers[1].closedOk /\ S = 0) =>
        /\ rd.op = "Open" => (rd.err = Nil /\ ~file.isDir)
        /\ rd.op = "Stat" =>
              /\ rd.err = Nil
              /\ rd.entries[1].size = 0
              /\ ~rd.entries[1].isDir
        /\ (rd.op = "Read" /\ rd.buf > 0) => (rd.n = 0 /\ rd.err = EOF)

\* C17: a session closed with success after zero bytes leaves a row of
\* file_metadata for its path and no row of file_fragments for that file.
C17_EmptyFileNoFragments ==
    \A w \in Writers :
        (writers[w].closedOk /\ written[w] = <<>> /\ AlonePath(w)) =>
            /\ ExistsPath(file_metadata, writers[w].path)
            /\ FragmentsOf(file_metadata, file_fragments, writers[w].path) = {}

----------------------------------------------------------------------------
(* One session whose commits fail: the database is closed under it *)

NextFault ==
    \/ NewWriter(1, PathA)
    \/ \E n \in 0..MaxWrite :
          /\ Len(written[1]) + n <= MaxLen
          /\ Writer_Write(1, NextData(1, n))
    \/ Writer_Close(1)
    \/ writerLoop_recv(1)
    \/ \E r \in inflight : writerLoop_exec(r)
    \/ \E r \in inflight : writerLoop_reply(r)
    \/ DB_Close

SpecFault == Init /\ [][NextFault]_vars

\* C18: when a commit fails during Write(data), Write returns the error with a
\* count n of bytes of data accepted before the failure, 0 <= n <= len(data),
\* whatever the buffer held from earlier Write calls.
C18_WriteErrorCount ==
    \A w \in Writers :
        LET s == writers[w]
        IN  (s.ret.op = "Write" /\ s.ret.err \notin {Nil, ErrClosed})
                => (0 <= s.ret.n /\ s.ret.n <= s.plen)

----------------------------------------------------------------------------
(* A reader of a path that sessions write, one after the other, meanwhile *)

\* The row ids the sessions of this scenario take: a first session on the path
\* and one that writes the path again.
SessionIds == {1, 2}

\* Most bytes one of these sessions writes.
MaxLenRW == 3

\* Largest buffer handed to Read here.
MaxBufRW == 3

NextRW ==
    \/ nextId \in SessionIds /\ NewWriter(1, PathA)
    \/ \E n \in 1..MaxWrite :
          /\ Len(written[1]) + n <= MaxLenRW
          /\ Writer_Write(1, NextData(1, n))
    \/ Writer_Close(1)
    \/ DropWriter(1)
    \/ writerLoop_recv(1)
    \/ \E r \in inflight : writerLoop_exec(r)
    \/ \E r \in inflight : writerLoop_reply(r)
    \/ fs.db = "open" /\ FS_Open(PathA)
    \/ \E plen \in 1..MaxBufRW : File_Read(plen)
    \/ File_Read_loop
    \/ DB_Close

SpecRW == Init /\ [][NextRW]_vars

----------------------------------------------------------------------------
(* Store shutdown while sessions write *)

\* Most bytes a session writes in this scenario.
MaxLenSD == 2

NextSD ==
    \/ \E w \in Writers, p \in {PathA, PathB} : NewWriter(w, p)
    \/ \E w \in Writers, n \in 1..MaxWrite :
          /\ Len(written[w]) + n <= MaxLenSD
          /\ Writer_Write(w, NextData(w, n))
    \/ \E w \in Writers : Writer_Close(w)
    \/ \E w \in Writers : writerLoop_recv(w)
    \/ \E r \in inflight : writerLoop_exec(r)
    \/ \E r \in inflight : writerLoop_reply(r)
    \/ \E w \in Writers : Writer_panic(w)
    \/ FS_Close_begin
    \/ writerLoop_exit
    \/ FS_Close_return

SpecSD == Init /\ [][NextSD]_vars

\* C20: at shutdown the writerLoop drains its queue and exits, and shutdown
\* blocks until it has: every request submitted before the shutdown, the
\* requests waiting on the channel included, receives its reply, and Close
\* returns, and closes the database handle, only after the loop has stopped
\* with every request it took answered.
C20_ShutdownDrains ==
    /\ \A w \in fs.blocked : writers[w].pc # "panicked"
    /\ fs.writerWg = 0 => inflight = {}
    /\ fs.db = "closed" => fs.writerWg = 0
    /\ fs.closing = "done" => (fs.writerWg = 0 /\ fs.db = "closed")

----------------------------------------------------------------------------
(* Handles made with NewSQLiteFile on whatever path, and their listings *)

\* The paths the sessions of this scenario write.
LsPaths == {<<"a">>, <<"b", "/", "c">>, <<"b", "/">>}

\* The paths handles are made on: the root in both spellings, a directory
\* with and without its slash, a directory no row is below.
LsHandles == {<<>>, <<"/">>, <<"b", "/">>, <<"b">>, <<"c", "/">>}

\* The exported constructor NewSQLiteFile(db, path), called on a path without
\* SQLiteFS.Open's existence tests before it.
File_New(path) ==
    /\ file.pc \in {"none", "idle"}
    /\ file' = NewSQLiteFile(file_metadata, file_fragments, path)
    /\ rd' = [NoResult EXCEPT !.op = "New", !.name = path]
    /\ hist' = NoHist
    /\ UNCHANGED <<store, writers, written, inflight, fs>>

NextLs ==
    \/ \E p \in LsPaths : StillWriting /\ nextId <= MaxFiles /\ NewWriter(1, p)
    \/ StillWriting /\ Writer_Close(1)
    \/ StillWriting /\ DropWriter(1)
    \/ writerLoop_recv(1)
    \/ \E r \in inflight : writerLoop_exec(r)
    \/ \E r \in inflight : writerLoop_reply(r)
    \/ \E path \in LsHandles : CallerFree /\ File_New(path)
    \/ \E n \in 0..2 : CallerFree /\ File_ReadDir(n)
    \/ \E count \in 0..2 : CallerFree /\ File_Readdir(count)

SpecLs == Init /\ [][NextLs]_vars

\* C21: a listing (ReadDir or Readdir) on a directory handle whose scan finds
\* no entry returns an empty list and no error when the directory exists, and
\* the root exists always, in a store without any row too, as does any other
\* directory whose prefix some row's path starts with; it fails with
\* "directory not found" when the directory does not exist.
C21_EmptyListing ==
    LET D == IF IsRootPath(file.path) THEN <<>> ELSE WithSlash(file.path)
        exists == IsRootPath(file.path) \/ \E r \in file_metadata : HasPrefix(r.path, D)
        rows == ReadDirRows(file_metadata, file.path)
        scanEmpty ==
            IF rd.op = "ReadDir"
            THEN ReadDirScan(file_metadata, file_fragments, rows, 1, file.path,
                             rd.n, <<>>, {}) = <<>>
            ELSE ReaddirScan(file_metadata, file_fragments, rows, 1, file,
                             rd.n, <<>>, {}) = [err |-> Nil, entries |-> <<>>]
    IN  (rd.op \in {"ReadDir", "Readdir"} /\ file.isDir /\ scanEmpty) =>
            IF exists THEN rd.err = Nil /\ rd.entries = <<>>
            ELSE rd.err = ErrDirNotFound

----------------------------------------------------------------------------
(* One file below a directory: its size at Open, in Stat and in listings *)

\* The file of this scenario, dir/file.txt in short.
SzPath == <<"b", "/", "c">>

NextSz ==
    \/ StillWriting /\ NewWriter(1, SzPath)
    \/ \E n \in 0..MaxWrite :
          /\ StillWriting
          /\ Len(written[1]) + n <= MaxLen
          /\ Writer_Write(1, NextData(1, n))
    \/ StillWriting /\ Writer_Close(1)
    \/ writerLoop_recv(1)
    \/ \E r \in inflight : writerLoop_exec(r)
    \/ \E r \in inflight : writerLoop_reply(r)
    \/ \E name \in {SzPath, <<"b">>} : SessionOver /\ FS_Open(name)
    \/ CallerFree /\ File_Stat
    \/ CallerFree /\ File_ReadDir(0)
    \/ CallerFree /\ File_Readdir(0)

SpecSz == Init /\ [][NextSz]_vars

\* The size Open computed for the file is the length of the stream.
OpenSizeIsL == file.path = SzPath => file.size = S

\* Stat on the handle of the file succeeds with the length of the stream.
StatSizeIsL ==
    (rd.op = "Stat" /\ file.path = SzPath) =>
        (rd.err = Nil /\ rd.entries[1].size = S /\ ~rd.entries[1].isDir)

\* The listing op of the parent directory has the file as an entry that is
\* not a directory, with the length of the stream as its size.
ListedSizeIsL(op) ==
    (rd.op = op /\ file.path = <<"b", "/">>) =>
        /\ rd.err = Nil
        /\ \E i \in 1..Len(rd.entries) : rd.entries[i].name = <<"c">>
        /\ \A i \in 1..Len(rd.entries) :
              rd.entries[i].name = <<"c">> =>
                  (rd.entries[i].size = S /\ ~rd.entries[i].isDir)

\* C22: for a file written by one session that accepted L bytes and closed
\* with success, the size computed at Open, the size Stat reports and the size
\* a listing of the parent directory reports for the file are all L.
C22_SizesAgree ==
    (writers[1].closedOk /\ file.pc = "idle") =>
        /\ OpenSizeIsL
        /\ StatSizeIsL
        /\ ListedSizeIsL("ReadDir")
        /\ ListedSizeIsL("Readdir")

----------------------------------------------------------------------------
(* What the returned errors carry *)

\* The error of a Write or Close of session s: errors.New(...) or the error
\* received on respCh, returned as it is.
Writer_error(s) == NoPathError

\* C23: every error a caller gets from Open, Read, Seek, Stat, a directory
\* listing, Write or Close identifies the failing operation and the path it
\* concerned (io.EOF, the end-of-file signal of Read, is not counted).
C23_ErrorsIdentify ==
    /\ (rd.op # "none" /\ rd.err \notin {Nil, EOF}) =>
          /\ rd.pathErr.Op # ""
          /\ rd.pathErr.Path = IF rd.op = "Open" THEN openName(rd.name) ELSE file.path
    /\ \A w \in Writers :
          writers[w].ret.err # Nil =>
              /\ Writer_error(writers[w]).Op # ""
              /\ Writer_error(writers[w]).Path = writers[w].path

----------------------------------------------------------------------------
(* The writer loop as the one place of mutation *)

Sending == {"sendCreate", "sendFrag"}
Waiting == {"waitCreate", "waitFrag"}

----------------------------------------------------------------------------
(* Two sessions on one path, then a reader *)

\* Both sessions have closed with success.
BothClosed == \A w \in Writers : writers[w].pc = "idle" /\ writers[w].closedOk

NextMix ==
    \/ \E w \in Writers : NewWriter(w, PathA)
    \/ \E w \in Writers, n \in 1..MaxWrite :
          /\ Len(written[w]) + n <= MaxLenRW
          /\ Writer_Write(w, NextData(w, n))
    \/ \E w \in Writers : Writer_Close(w)
    \/ \E w \in Writers : writerLoop_recv(w)
    \/ \E r \in inflight : writerLoop_exec(r)
    \/ \E r \in inflight : writerLoop_reply(r)
    \/ BothClosed /\ FS_Open(PathA)
    \/ \E plen \in 1..MaxBufRW : File_Read(plen)
    \/ File_Read_loop

SpecMix == Init /\ [][NextMix]_vars

\* C25: two sessions write one path concurrently and both close with success:
\* what the path then holds, and what Open and Read calls up to EOF return, is
\* the complete stream of one of the two sessions, never fragments of both.
C25_NoMixture ==
    BothClosed =>
        /\ StoredBytes(PathA) \in {written[1], written[2]}
        /\ (rd.op = "Read" /\ rd.err = EOF) => hist.acc \in {written[1], written[2]}

----------------------------------------------------------------------------
(* The round trip through the writer loop, with the loop scheduled fairly *)

\* Most bytes one session is handed in this scenario.
MaxLenLive == 3

NextLive ==
    \/ \E w \in Writers, p \in {PathA, PathB} : NewWriter(w, p)
    \/ \E w \in Writers, n \in 0..MaxWrite :
          /\ Len(written[w]) + n <= MaxLenLive
          /\ Writer_Write(w, NextData(w, n))
    \/ \E w \in Writers : Writer_Close(w)
    \/ \E w \in Writers : writerLoop_recv(w)
    \/ \E r \in inflight : writerLoop_exec(r)
    \/ \E r \in inflight : writerLoop_reply(r)

\* Two short sessions under every interleaving, with no assumption on the
\* scheduling.
SpecPair == Init /\ [][NextLive]_vars

\* The writerLoop goroutine is runnable whenever it can receive, execute or
\* reply, and the scheduler runs a runnable goroutine; the callers may stop
\* calling at any time.
SpecLive ==
    /\ Init
    /\ [][NextLive]_vars
    /\ WF_vars(\E w \in Writers : writerLoop_recv(w))
    /\ WF_vars(\E r \in inflight : writerLoop_exec(r))
    /\ WF_vars(\E r \in inflight : writerLoop_reply(r))

\* C26: with the store not shut down and the writer loop scheduled fairly,
\* every request a session submits receives exactly one reply: a session that
\* waits for a reply has exactly one request of its own in the loop's hands, a
\* session inside Write or Close eventually is back at its caller, and no
\* interleaving of two concurrent sessions leaves a call blocked for ever.
C26_RoundTripReturns ==
    /\ [](\A w \in Writers :
             writers[w].pc \in Waiting <=>
                 Cardinality({r \in inflight : r.from = w}) = 1)
    /\ [](\A r \in inflight : writers[r.from].pc \in Waiting)
    /\ \A w \in Writers :
          (writers[w].pc \in Sending \cup Waiting) ~> (writers[w].pc = "idle")

\* Both sessions are inside a call at once, one waiting for its reply and the
\* other blocked on the send of a later fragment.
C26_Witness ==
    /\ writers[1].pc \in Waiting
    /\ writers[2].pc = "sendFrag" /\ writers[2].fragmentIndex > 0

----------------------------------------------------------------------------
(* Sessions that write during and after the shutdown *)

\* C27: a Write or Close of a session that runs while SQLiteFS.Close runs, or
\* after it, returns to its caller with success or with an error: no send
\* panics, and no session is left waiting for a reply once the writer loop has
\* stopped.
C27_ShutdownSafe ==
    \A w \in Writers :
        /\ writers[w].pc # "panicked"
        /\ fs.writerWg = 0 => writers[w].pc \notin Waiting

----------------------------------------------------------------------------
(* The order of the fragment indices committed for a file *)

\* C28: for every file the writer loop commits fragments in strictly
\* increasing index order: a commit of index i for a file finds only
\* fragments of lower indices stored for that file, whatever the sessions and
\* their interleaving.
C28_IncreasingIndices ==
    [][\A r \in inflight :
          (r.mimeType = "" /\ writerLoop_exec(r)
              /\ FS_writeFragment_err(file_metadata, r.path) = Nil) =>
             \A q \in FragmentsOf(file_metadata, file_fragments, r.path) :
                 q.fragment_index < r.index]_vars

----------------------------------------------------------------------------
(* The file record of a session *)

\* The sessions whose createFileRecord request the loop has executed with
\* success.
Created ==
    {w \in Writers :
        \/ writers[w].fileCreated
        \/ \E r \in inflight :
              r.from = w /\ r.mimeType # "" /\ r.phase = "done" /\ r.err = Nil}

\* C29: each session has its file record created exactly once (every row id
\* handed out belongs to one session's one request, and a session that has
\* closed has had its request executed), before any of its fragments is
\* committed, and at the moment its first full fragment is flushed by a Write,
\* or in Close when fewer than fragmentSize bytes were written in total.
C29_CreatedOnce ==
    /\ [](Cardinality(Created) = nextId - 1)
    /\ [](\A w \in Writers :
             /\ writers[w].closedOk => writers[w].fileCreated
             /\ writers[w].fragmentIndex > 0 => writers[w].fileCreated
             /\ \A r \in inflight : (r.from = w /\ r.mimeType = "") => writers[w].fileCreated)
    /\ [][\A r \in inflight :
             (r.mimeType # "" /\ writerLoop_exec(r)) =>
                 LET s == writers[r.from]
                 IN  /\ r.from \notin Created
                     /\ s.fragmentIndex = 0
                     /\ s.call = "Write" =>
                           (Len(s.buffer) >= fragmentSize /\ Len(s.buffer) = Len(written[r.from]))
                     /\ s.call = "Close" => Len(written[r.from]) < fragmentSize]_vars

\* One session created its record in a Write that filled the first fragment
\* and went on to a second fragment, the other one in Close after a stream
\* shorter than a fragment; both on one path.
C29_Witness ==
    /\ writers[1].closedOk /\ Len(written[1]) > fragmentSize
    /\ writers[2].closedOk /\ Len(written[2]) < fragmentSize /\ Len(written[2]) > 0
    /\ writers[1].path = writers[2].path
    /\ nextId = 3

----------------------------------------------------------------------------
(* A session after a commit that failed *)

\* C30: when a fragment commit fails the session does not increment its
\* fragment index and keeps the uncommitted bytes in its buffer, a Close that
\* fails does not mark the session closed, and the Close that follows a failed
\* Close submits the fragment index that failed again, with the same bytes.
C30_FailedCommitRetry ==
    /\ [](\A w \in Writers :
             LET s == writers[w]
             IN  (s.pc = "idle" /\ s.ret.err \notin {Nil, ErrClosed}) =>
                     /\ ~s.closed /\ ~s.closedOk
                     /\ s.failed # NoRequest =>
                           /\ s.fragmentIndex = s.failed.index
                           /\ Len(s.buffer) >= Len(s.failed.data)
                           /\ SubSeq(s.buffer, 1, Len(s.failed.data)) = s.failed.data)
    /\ [][\A w \in Writers :
             LET s == writers[w]
             IN  (/\ writerLoop_recv(w)
                  /\ s.pc = "sendFrag" /\ s.call = "Close"
                  /\ s.ret.op = "Close" /\ s.ret.err # Nil
                  /\ s.failed # NoRequest) =>
                     \E r \in inflight' :
                        /\ r.from = w /\ r.mimeType = ""
                        /\ r.index = s.failed.index
                        /\ r.data = s.failed.data]_vars

\* The Close after a failed Close has submitted the last fragment again,
\* after earlier fragments of the session had been committed.
C30_Witness ==
    \E r \in inflight :
        /\ r.from = 1 /\ r.mimeType = "" /\ r.index > 0 /\ r.data # <<>>
        /\ writers[1].call = "Close"
        /\ writers[1].ret.op = "Close" /\ writers[1].ret.err = ErrDBClosed
        /\ r.index = writers[1].failed.index /\ r.data = writers[1].failed.data

----------------------------------------------------------------------------
(* A session whose commits fail for a while, and a caller that tries again *)

ErrBusy == "database is locked"

\* Most bytes of the stream the caller of this scenario means to write, and
\* most bytes it hands to Write in all, those it hands a second time included.
MaxLenRetry == 3
MaxHanded == 5

\* The body of the loop when the statement or the transaction fails while the
\* database stays open (db.Exec, db.Begin, tx.Exec or tx.Commit return an
\* error): nothing is stored and the error is the reply.
writerLoop_exec_fail(r) ==
    /\ r \in inflight
    /\ r.phase = "exec"
    /\ fs.db = "open"
    /\ inflight' = (inflight \ {r}) \cup {[r EXCEPT !.phase = "done", !.err = ErrBusy]}
    /\ UNCHANGED <<store, writers, written, reader, fs>>

\* How far into its stream the caller of session w has got: the highest
\* position it has handed to Write, and the stream up to there.
Top(w) ==
    IF written[w] = <<>> THEN 0
    ELSE CHOOSE k \in 1..Len(written[w]) :
            /\ \E i \in 1..Len(written[w]) : written[w][i] = StreamByte(w, k)
            /\ \A i \in 1..Len(written[w]) : written[w][i] <= StreamByte(w, k)

Intended(w) == [i \in 1..Top(w) |-> StreamByte(w, i)]

\* The last Write of session w failed.
WriteFailed(w) ==
    /\ writers[w].pc = "idle"
    /\ writers[w].ret.op = "Write"
    /\ writers[w].ret.err \notin {Nil, ErrClosed}

\* data[n:] of the Write(data) that failed with n bytes reported.
Unaccepted(w) ==
    SubSeq(written[w], Len(written[w]) - writers[w].plen + writers[w].ret.n + 1,
           Len(written[w]))

\* The caller: it goes on with its stream after a call that succeeded, writes
\* data[n:] again after a Write that failed, and closes (again, if Close
\* failed) when it has nothing to write again.
NextRetry ==
    \/ NewWriter(1, PathA)
    \/ \E n \in 1..MaxWrite :
          /\ writers[1].ret.err = Nil
          /\ Top(1) + n <= MaxLenRetry
          /\ Writer_Write(1, [i \in 1..n |-> StreamByte(1, Top(1) + i)])
    \/ /\ WriteFailed(1)
       /\ 0 <= writers[1].ret.n /\ writers[1].ret.n <= writers[1].plen
       /\ Len(written[1]) + Len(Unaccepted(1)) <= MaxHanded
       /\ Writer_Write(1, Unaccepted(1))
    \/ ~WriteFailed(1) /\ Writer_Close(1)
    \/ writerLoop_recv(1)
    \/ \E r \in inflight : writerLoop_exec(r)
    \/ \E r \in inflight : writerLoop_exec_fail(r)
    \/ \E r \in inflight : writerLoop_reply(r)

SpecRetry == Init /\ [][NextRetry]_vars

\* What session w holds: the fragments committed for its path and its buffer.
Held(w) == StoredBytes(writers[w].path) \o writers[w].buffer

\* After a failed Write(data) that reported n bytes, the session holds what
\* it held before the call and the first n bytes of data.
HoldsAccepted ==
    (WriteFailed(1) /\ 0 <= writers[1].ret.n /\ writers[1].ret.n <= writers[1].plen) =>
        Held(1) = SubSeq(written[1], 1, Len(written[1]) - Len(Unaccepted(1)))

\* Once the session has closed, the path holds the stream the caller meant.
RetryKeepsStream == writers[1].closedOk => StoredBytes(PathA) = Intended(1)

\* C31: after a Write(data) that failed and reported n bytes accepted, the
\* session holds exactly the first n bytes of data on top of what it held
\* before; when the caller writes data[n:] again and closes, the commits now
\* succeeding, the stored file is the intended stream, no byte twice, none
\* lost.
C31_RetryAfterFailedWrite == HoldsAccepted /\ RetryKeepsStream

----------------------------------------------------------------------------
(* A reader of a path while its one session writes *)

\* The path has been written by one session only, which is still there.
SingleSession == nextId = 1 \/ (nextId = 2 /\ 1 \in Created)

\* a is the head of b.
IsPrefix(a, b) == Len(a) <= Len(b) /\ a = SubSeq(b, 1, Len(a))

\* C32: a reader that opens and reads a path while a single session writes it
\* only obtains a prefix of that session's stream made of committed
\* fragments: the bytes returned since Open are at every moment a prefix of
\* the stream and of what is stored, and when Read reports EOF they end on the
\* boundary of a stored fragment.
C32_ReaderSeesPrefix ==
    (SingleSession /\ file.pc # "none") =>
        /\ IsPrefix(hist.acc, written[1])
        /\ IsPrefix(hist.acc, StoredBytes(PathA))
        /\ (rd.op = "Read" /\ rd.err = EOF /\ file.pc = "idle") =>
              \/ Len(hist.acc) % fragmentSize = 0
              \/ hist.acc = StoredBytes(PathA)

\* A reader got the first fragment and then EOF while the session, not yet
\* closed, had been handed more than that.
C32_Witness ==
    /\ SingleSession /\ ~writers[1].closed /\ writers[1].pc # "none"
    /\ rd.op = "Read" /\ rd.err = EOF /\ file.pc = "idle"
    /\ Len(hist.acc) = fragmentSize
    /\ Len(written[1]) > fragmentSize

----------------------------------------------------------------------------
(* A path written again *)

\* The fragments the path's first session left, under the row id it had.
FirstSessionRows == {r \in file_fragments : r.file_id = 1}

\* C33: a path that a closed session had written is written again by a later
\* session, which closes with success; a reader that opens the path afterwards
\* gets exactly the new content: the size of the handle is the length of the
\* new stream and the bytes read, up to EOF, are the new stream, whatever the
\* first session left, longer content too.
C33_RewriteReplaces ==
    (hist.afterClose /\ hist.nextId = 3 /\ ClosedAlone(PathA) /\ file.pc # "none") =>
        /\ file.size = Len(written[1])
        /\ IsPrefix(hist.acc, written[1])
        /\ (rd.op = "Read" /\ rd.err = EOF /\ file.pc = "idle") => hist.acc = written[1]

\* The second session wrote one byte over a path that held two fragments,
\* and a reader read the path to EOF.
C33_Witness ==
    /\ hist.afterClose /\ hist.nextId = 3
    /\ rd.op = "Read" /\ rd.err = EOF /\ file.pc = "idle"
    /\ hist.acc = written[1] /\ Len(written[1]) = 1
    /\ Cardinality(FirstSessionRows) = 2

----------------------------------------------------------------------------
(* Fragment rows of any length: a store prepared with db.Exec *)

\* The fragment indices and the lengths the rows of this scenario take:
\* absent, empty, short, full, and longer than fragmentSize.
FragIdxs == {0, 1, 2}
FragLens == 0..(fragmentSize + 1)
\* The buffer lengths of Read and the offsets of Seek in this scenario: less
\* than a fragment and more than one; a fragment's start, its inside, the
\* start of a later fragment.
FragBufs == {1, 3}
FragOffs == {0, 1, 4}

\* The file exists: session 1, which wrote nothing, is closed.
FileWritten == writers[1].pc = "idle" /\ writers[1].closedOk

\* The rows are prepared before the file is opened.
NotOpened == file.pc = "none"

\* db.Exec("INSERT INTO file_fragments (file_id, fragment_index, fragment)
\* VALUES (?, ?, ?)") by the owner of the database, as TestReadZeroBytesFragment
\* does, after the DELETE of the row when index i has one: a row of len bytes
\* at index i of the file.
Exec_Insert(i, len) ==
    /\ FileWritten /\ NotOpened /\ fs.db = "open"
    /\ \E id \in IdsOfPath(file_metadata, PathA) :
          file_fragments' = UpsertFragment(file_fragments, id, i,
                                [k \in 1..len |-> StreamByte(1, i * fragmentSize + k)])
    /\ UNCHANGED <<file_metadata, nextId, writers, written, inflight, reader, fs>>

\* db.Exec("DELETE FROM file_fragments WHERE file_id = ? AND fragment_index = ?")
Exec_Delete(i) ==
    /\ FileWritten /\ fs.db = "open"
    /\ \E id \in IdsOfPath(file_metadata, PathA) :
          file_fragments' = {r \in file_fragments :
                                ~(r.file_id = id /\ r.fragment_index = i)}
    /\ UNCHANGED <<file_metadata, nextId, writers, written, inflight, reader, fs>>

NextFrag ==
    \/ nextId = 1 /\ NewWriter(1, PathA)
    \/ Writer_Close(1)
    \/ writerLoop_recv(1)
    \/ \E r \in inflight : writerLoop_exec(r)
    \/ \E r \in inflight : writerLoop_reply(r)
    \/ \E i \in FragIdxs, len \in FragLens : Exec_Insert(i, len)
    \/ \E i \in FragIdxs : Exec_Delete(i)
    \/ FileWritten /\ fs.db = "open" /\ FS_Open(PathA)
    \/ \E offset \in FragOffs : File_Seek(offset, SeekStart)
    \/ \E plen \in FragBufs : File_Read(plen)
    \/ File_Read_loop
    \/ DB_Close

SpecFrag == Init /\ [][NextFrag]_vars

\* Read runs in the caller's goroutine: once called, its loop keeps taking turns.
SpecFragLive == SpecFrag /\ WF_vars(File_Read_loop)

\* C34: every Read call terminates, whatever the lengths of the stored
\* fragments: a Read that has entered its loop returns.  A turn that copies no
\* byte while offset < size moves the cursor to the start of the next fragment,
\* so an empty or short row does not hold the loop.
C34_ReadTerminates == (file.pc = "reading") ~> (file.pc = "idle")

\* A Read has returned bytes after its cursor went over a gap: the cursor moved
\* further than the call copied.
C34_Witness ==
    /\ rd.op = "Read" /\ file.pc = "idle" /\ rd.err = Nil
    /\ rd.n > 0 /\ file.offset - rd.pre > rd.n
    /\ \E r \in FragmentsOf(file_metadata, file_fragments, PathA) : r.fragment = <<>>

----------------------------------------------------------------------------
(* Seek from the end under a handle that is older than the content *)

\* The distances of Seek(d, io.SeekEnd) in this scenario.
SeekEnds == {-1, 0, 1}

NextSeek ==
    \/ nextId = 1 /\ NewWriter(1, PathA)
    \/ \E n \in 1..MaxWrite :
          /\ Len(written[1]) + n <= MaxLenRW
          /\ Writer_Write(1, NextData(1, n))
    \/ Writer_Close(1)
    \/ writerLoop_recv(1)
    \/ \E r \in inflight : writerLoop_exec(r)
    \/ \E r \in inflight : writerLoop_reply(r)
    \/ FS_Open(PathA)
    \/ \E d \in SeekEnds : File_Seek(d, SeekEnd)

SpecSeek == Init /\ [][NextSeek]_vars

\* The size the file of PathA has in the store.
StoredSize == SumLen(FragmentsOf(file_metadata, file_fragments, PathA))

\* A step of this scenario that is a successful Seek(d, io.SeekEnd): the
\* caller's handle is idle before and after, nothing but the handle changes,
\* and the result is that of such a Seek.
SeekEndStep ==
    /\ file.pc = "idle" /\ file'.pc = "idle"
    /\ UNCHANGED <<store, writers, written, inflight, fs>>
    /\ rd'.op = "Seek" /\ rd'.whence = SeekEnd /\ rd'.err = Nil

\* C35: Seek(d, End) sets the offset to d plus the size the file has in the
\* store at the time of the call, computed from the stored fragments, and not to
\* d plus the size cached when the handle was opened.
C35_SeekEndFromStore ==
    [][SeekEndStep =>
          /\ file'.offset = StoredSize + rd'.offset
          /\ rd'.n = file'.offset]_vars

\* A Seek from the end has returned on a handle whose cached size is not the
\* size in the store.
C35_Witness ==
    /\ rd.op = "Seek" /\ rd.whence = SeekEnd /\ rd.err = Nil /\ file.pc = "idle"
    /\ StoredSize > file.size
    /\ file.offset = StoredSize + rd.offset

----------------------------------------------------------------------------
(* The counters of a session between its calls *)

\* Session w is between two calls and none of its commits has failed.
BetweenCalls(w) ==
    /\ writers[w].pc = "idle"
    /\ writers[w].failed = NoRequest
    /\ writers[w].ret.err \in {Nil, ErrClosed}

\* What the claim says of session w.  The fragments the session has committed
\* are the rows of its file when no other session writes to its path.
CountersAgree(w) ==
    LET s == writers[w]
    IN  /\ Len(s.buffer) < fragmentSize
        /\ AlonePath(w) =>
              \A r \in FragmentsOf(file_metadata, file_fragments, s.path) :
                  Len(r.fragment) = fragmentSize
        /\ s.fragmentIndex * fragmentSize + Len(s.buffer) = Len(written[w])

\* C37 as stated: between calls on a session whose commits have all succeeded,
\* the buffer holds fewer than fragmentSize bytes, every fragment committed so
\* far has length exactly fragmentSize, and fragmentIndex * fragmentSize +
\* len(buffer) is the number of bytes the session has accepted.
C37_BetweenCalls == \A w \in Writers : BetweenCalls(w) => CountersAgree(w)

\* C37, amended: the same, between calls on a session that has not been closed.
C37_BetweenCallsOpen ==
    \A w \in Writers : (BetweenCalls(w) /\ ~writers[w].closed) => CountersAgree(w)

\* An open session between two Writes, with a fragment committed and a byte in
\* its buffer.
C37_Witness ==
    \E w \in Writers :
        /\ BetweenCalls(w) /\ ~writers[w].closed /\ AlonePath(w)
        /\ writers[w].ret.op = "Write"
        /\ writers[w].fragmentIndex = 1 /\ Len(writers[w].buffer) = 1

====
